---- MODULE Spec2Model ----
(***************************************************************************)
(* Task file lifecycle of the Duix Face2Face service (src/app/main.py):    *)
(* the task_files table of Face2FaceService, the files of the data         *)
(* directory, the request handlers submit_task / get_result, the deferred  *)
(* cleanup threads and the periodic cleanup thread.                        *)
(*                                                                         *)
(* Threads.  The HTTP handlers are "async def" functions that call the     *)
(* blocking service methods directly, so one request runs at a time on the *)
(* event loop (variable req).  The periodic cleanup worker (sweep) and the *)
(* threads started by cleanup_files / _schedule_task_cleanup (cleaners,    *)
(* mappers) run concurrently with it; every step below is one system call  *)
(* or one critical section of file_lock.                                   *)
(*                                                                         *)
(* Time.  now is time.time() in seconds.  The clock advances by one of     *)
(* TickSteps, at most MaxTicks times.  A sleeping thread holds the time    *)
(* left of its sleep, which a clock advance reduces; a thread may run any  *)
(* time after its sleep has ended.                                         *)
(*                                                                         *)
(* Specifications.  Spec is the service on a file system where unlinking   *)
(* an existing file succeeds; SpecFaults adds an environment that makes    *)
(* paths undeletable for a while (unlink raises), at most MaxFaults times. *)
(***************************************************************************)
EXTENDS Integers, Sequences, FiniteSets, TLC

----------------------------------------------------------------------------
(* Configuration (environment variables read at import time).              *)

DUIX_DATA_DIR == "/code/data"
CLEANUP_DELAY == 1
PERIODIC_CLEANUP_INTERVAL == 2
\* the sleep of cleanup_worker after an exception, shorter than the interval
ERROR_BACKOFF == 1
MAX_FILE_AGE == 12
\* the margin added to CLEANUP_DELAY in _schedule_task_cleanup
TASK_CLEANUP_MARGIN == 10

(* Bounds of the model.                                                    *)
MaxTasks == 2      \* submit_task calls
MaxFetches == 2    \* get_result calls
MaxTicks == 1      \* clock advances
MaxFaults == 1     \* times the environment makes a path undeletable
MaxLiveTasks == 1  \* submit_task calls where the runs are followed to their end

\* a clock advance: up to the grace period, past it, or past the maximum age
TickSteps == {CLEANUP_DELAY, CLEANUP_DELAY + 1, MAX_FILE_AGE + 1}

(* A file name is the tuple of its dot-separated parts: <<"a","mp3">> is   *)
(* a.mp3, <<"stream">> has no extension, <<>> is the empty name.  A URL is *)
(* given by the basename of its path.  Every audio URL names a.mp3, so the *)
(* audio files of two tasks share a path; the video URLs have no file      *)
(* name, so every video file gets a generated name.                        *)
AudioUrls == {<<"a", "mp3">>}
VideoUrls == {<<"stream">>}

\* the engine names the result of a task after its code
ResultName(task_code) == <<"r" \o ToString(task_code), "mp4">>
ResultNames == {ResultName(c) : c \in 1..MaxTasks}

----------------------------------------------------------------------------
(* Paths and the file system.                                              *)

NoPath == [dir |-> "", name |-> <<>>]
\* os.path.join(dir, filename)
PathJoin(dir, filename) == [dir |-> dir, name |-> filename]
TempDir == DUIX_DATA_DIR \o "/temp"
\* a Python value used as a condition: None and "" are false
Truthy(path) == path # NoPath

ENGINE == 0
NoTime == -1

VARIABLES
  now,         \* time.time()
  ticks,       \* clock advances so far
  files,       \* regular files: path -> [mtime, owner]; owner is the submit
               \* call that wrote the content (ENGINE for a result file)
  unlinkErr,   \* paths whose unlink currently raises (EACCES, EBUSY, ...)
  nfaults,     \* times a path was made undeletable
  task_files,  \* self.task_files: task_code -> record
  nsubmit,     \* submit_task calls so far; call n generates task_code n
  nfetch,      \* get_result calls so far
  posted,      \* task codes the engine accepted and has not finished
  req,         \* the submit_task call being handled
  cleaners,    \* threads started by cleanup_files(paths, delay > 0)
  mappers,     \* threads started by _schedule_task_cleanup
  sweep,       \* the periodic cleanup thread
  probe        \* the last answer of /health or /debug/tasks

vars == <<now, ticks, files, unlinkErr, nfaults, task_files, nsubmit, nfetch,
          posted, req, cleaners, mappers, sweep, probe>>

Exists(fs, path) == path \in DOMAIN fs
Put(f, k, v) == (k :> v) @@ f
Drop(f, k) == [x \in DOMAIN f \ {k} |-> f[x]]
Range(seq) == {seq[i] : i \in 1..Len(seq)}

\* outcome of os.unlink(path): "ok", "enoent" (FileNotFoundError) or "err"
UnlinkResult(fs, bad, path) ==
  IF ~Exists(fs, path) THEN "enoent"
  ELSE IF path \in bad THEN "err"
  ELSE "ok"

Unlink(fs, bad, path) ==
  IF UnlinkResult(fs, bad, path) = "ok" THEN Drop(fs, path) ELSE fs

\* do_cleanup, lines 263-268: every path of the list in turn; a path that
\* does not exist is skipped and an unlink that raises is logged
RECURSIVE UnlinkAll(_, _, _)
UnlinkAll(fs, bad, paths) ==
  IF paths = <<>> THEN fs
  ELSE UnlinkAll(Unlink(fs, bad, Head(paths)), bad, Tail(paths))

\* open(path, 'wb') followed by writes: the content is the writer's, mtime t
WriteFile(fs, path, t, who) == Put(fs, path, [mtime |-> t, owner |-> who])

\* the regular files directly under the data directory (Path.iterdir, is_file)
Listing(fs) == {p \in DOMAIN fs : p.dir = DUIX_DATA_DIR}

----------------------------------------------------------------------------
(* download_file: the local file name.                                     *)

Ext(file_type) == IF file_type = "audio" THEN "mp3" ELSE "mp4"

\* uuid.uuid4().hex[:8] of the n-th call
Hex8(n) == "u" \o ToString(n)

\* lines 78-86
DownloadFilename(url, file_type, t, n) ==
  LET original_filename == url IN
  IF original_filename = <<>> \/ Len(original_filename) < 2
  THEN <<ToString(t) \o "_" \o file_type \o "_" \o Hex8(n), Ext(file_type)>>
  ELSE original_filename

\* line 88
LocalPath(url, file_type, t, n) ==
  PathJoin(DUIX_DATA_DIR, DownloadFilename(url, file_type, t, n))

----------------------------------------------------------------------------
(* The task table.                                                         *)

\* lines 153-157; the keys result_file and result_retrieved_time are absent
TaskInfo(audio_local, video_local, t) ==
  [audio_local |-> audio_local, video_local |-> video_local,
   created_time |-> t, result_file |-> NoPath, result_retrieved_time |-> NoTime]

FileKeys == <<"audio_local", "video_local", "result_file">>

\* a variant of KeysOf that forgets the key result_file
KeysOfInputs(task_info, k) ==
  {task_info.audio_local, task_info.video_local} \ {NoPath}

\* lines 308-310: the paths of one record, key by key
RECURSIVE KeysOf(_, _)
KeysOf(task_info, k) ==
  IF k > Len(FileKeys) THEN {}
  ELSE (IF Truthy(task_info[FileKeys[k]]) THEN {task_info[FileKeys[k]]} ELSE {})
       \cup KeysOf(task_info, k + 1)

\* lines 305-310: the paths of every record
RECURSIVE ActiveOver(_, _)
ActiveOver(tf, codes) ==
  IF codes = {} THEN {}
  ELSE LET c == CHOOSE x \in codes : TRUE
       IN KeysOf(tf[c], 1) \cup ActiveOver(tf, codes \ {c})

ActiveFileSet(tf) == ActiveOver(tf, DOMAIN tf)

\* lines 341-344
ExpiredTasks(tf, current_time) ==
  {c \in DOMAIN tf : current_time - tf[c].created_time > MAX_FILE_AGE}

\* lines 346-347
Expire(tf, current_time) ==
  [c \in DOMAIN tf \ ExpiredTasks(tf, current_time) |-> tf[c]]

\* a variant of Classify that gives an active file no more than the grace
\* period
ClassifyUnprotected(file_str, file_age, active_files) ==
  IF file_age > CLEANUP_DELAY
  THEN (IF file_str \notin active_files THEN "orphan" ELSE "old")
  ELSE "keep"

\* a variant of Classify whose grace period ends one second early
ClassifyEarly(file_str, file_age, active_files) ==
  IF file_str \notin active_files
  THEN (IF file_age >= CLEANUP_DELAY THEN "orphan" ELSE "keep")
  ELSE IF file_age > MAX_FILE_AGE THEN "old"
  ELSE "keep"

\* lines 321-331: "orphan", "old" or "keep"
Classify(file_str, file_age, active_files) ==
  IF file_str \notin active_files
  THEN (IF file_age > CLEANUP_DELAY THEN "orphan" ELSE "keep")
  ELSE IF file_age > MAX_FILE_AGE THEN "old"
  ELSE "keep"

\* self.task_files.pop(task_code, None)
PopTask(tf, task_code) ==
  IF task_code \in DOMAIN tf THEN Drop(tf, task_code) ELSE tf

----------------------------------------------------------------------------
(* Initial state: the service has just been constructed; the data          *)
(* directory is empty and the cleanup worker is about to run its first     *)
(* pass.                                                                   *)

\* the locals of submit_task: the URLs still to download, audio_local and
\* video_local
ReqIdle ==
  [pc |-> "idle", call |-> 0, audio_url |-> <<>>, video_url |-> <<>>,
   audio_local |-> NoPath, video_local |-> NoPath]

\* line 301; the count of expired tasks is only logged
NoStats == [orphan_files |-> 0, old_files |-> 0]

\* the locals of periodic_cleanup, and what is left of the worker's sleep
SweepIdle(sleep) ==
  [pc |-> "sleep", sleep |-> sleep, current_time |-> 0, active_files |-> {},
   todo |-> {}, cur |-> NoPath, stats |-> NoStats]

\* no request to /health or /debug/tasks has been answered
NoProbe == [op |-> "none", active_tasks |-> 0, locked |-> TRUE]

Init ==
  /\ now = 0
  /\ ticks = 0
  /\ files = <<>>
  /\ unlinkErr = {}
  /\ nfaults = 0
  /\ task_files = <<>>
  /\ nsubmit = 0
  /\ nfetch = 0
  /\ posted = {}
  /\ req = ReqIdle
  /\ cleaners = <<>>
  /\ mappers = <<>>
  /\ sweep = SweepIdle(0)
  /\ probe = NoProbe

----------------------------------------------------------------------------
(* Environment.                                                            *)

\* what is left of a sleep after d seconds
Left(sleep, d) == IF sleep > d THEN sleep - d ELSE 0

Tick(d) ==
  /\ ticks < MaxTicks
  /\ now' = now + d
  /\ ticks' = ticks + 1
  /\ cleaners' = [i \in DOMAIN cleaners |->
                    [cleaners[i] EXCEPT !.sleep = Left(@, d)]]
  /\ mappers' = [i \in DOMAIN mappers |->
                   [mappers[i] EXCEPT !.sleep = Left(@, d)]]
  /\ sweep' = [sweep EXCEPT !.sleep = Left(@, d)]
  /\ UNCHANGED <<files, unlinkErr, nfaults, task_files, nsubmit, nfetch,
                 posted, req,
                 probe>>

\* the engine finishes a task it accepted: the result lands in the temp
\* subdirectory
EngineWriteResult(task_code) ==
  /\ task_code \in posted
  /\ posted' = posted \ {task_code}
  /\ files' = WriteFile(files, PathJoin(TempDir, ResultName(task_code)), now,
                        ENGINE)
  /\ UNCHANGED <<now, ticks, unlinkErr, nfaults, task_files, nsubmit, nfetch,
                 req, cleaners, mappers, sweep,
                 probe>>

\* a file becomes undeletable (permissions, a busy mount), and deletable again
SetUnlinkError(path) ==
  /\ nfaults < MaxFaults
  /\ path \in DOMAIN files
  /\ path \notin unlinkErr
  /\ unlinkErr' = unlinkErr \cup {path}
  /\ nfaults' = nfaults + 1
  /\ UNCHANGED <<now, ticks, files, task_files, nsubmit, nfetch, posted, req,
                 cleaners, mappers, sweep,
                 probe>>

ClearUnlinkError(path) ==
  /\ path \in unlinkErr
  /\ unlinkErr' = unlinkErr \ {path}
  /\ UNCHANGED <<now, ticks, files, nfaults, task_files, nsubmit, nfetch,
                 posted, req, cleaners, mappers, sweep,
                 probe>>

----------------------------------------------------------------------------
(* submit_task and download_file.  The steps of a call are its blocking    *)
(* operations: the two downloads and the post to the engine.               *)

\* a variant of CleanupList that forgets the video file
CleanupAudioOnly(audio_local, video_local) ==
  SelectSeq(<<audio_local>>, Truthy)

\* line 168: [f for f in [audio_local, video_local] if f]
CleanupList(audio_local, video_local) ==
  SelectSeq(<<audio_local, video_local>>, Truthy)

\* a request arrives
SubmitTask(audio_url, video_url) ==
  /\ req.pc = "idle"
  /\ nsubmit < MaxTasks
  /\ nsubmit' = nsubmit + 1
  /\ req' = [ReqIdle EXCEPT !.pc = "audio", !.call = nsubmit + 1,
                            !.audio_url = audio_url, !.video_url = video_url]
  /\ UNCHANGED <<now, ticks, files, unlinkErr, nfaults, task_files, nfetch,
                 posted, cleaners, mappers, sweep,
                 probe>>

\* the file type and URL of the download in progress
FileType(r) == IF r.pc = "audio" THEN "audio" ELSE "video"
Url(r) == IF r.pc = "audio" THEN r.audio_url ELSE r.video_url

\* what download_file returns to submit_task: the next download, or the post
Downloaded(r, local_path) ==
  IF r.pc = "audio"
  THEN [r EXCEPT !.audio_local = local_path, !.audio_url = <<>>,
                 !.pc = "video"]
  ELSE [r EXCEPT !.video_local = local_path, !.video_url = <<>>,
                 !.pc = "post"]

\* download_file, lines 78-105: the file is written under its local path
DownloadOk ==
  /\ req.pc \in {"audio", "video"}
  /\ LET local_path == LocalPath(Url(req), FileType(req), now, req.call) IN
     /\ files' = WriteFile(files, local_path, now, req.call)
     /\ req' = Downloaded(req, local_path)
  /\ UNCHANGED <<now, ticks, unlinkErr, nfaults, task_files, nsubmit, nfetch,
                 posted, cleaners, mappers, sweep,
                 probe>>

\* the files after the except branch of submit_task, lines 166-170:
\* cleanup_files with delay 0 deletes what the call has staged
FailureCleanup(fs, bad, audio_local, video_local) ==
  UnlinkAll(fs, bad, CleanupList(audio_local, video_local))

\* the table after lines 173-175
FailurePop(tf, task_code) ==
  IF task_code # 0 THEN PopTask(tf, task_code) ELSE tf

\* download_file, lines 107-117: the request or a read fails; the file at
\* local_path, if any, is unlinked and the error is raised into submit_task,
\* whose except branch (lines 166-178) cleans up and raises to the caller.
\* No task code has been generated yet.
DownloadFail ==
  /\ req.pc \in {"audio", "video"}
  /\ LET local_path == LocalPath(Url(req), FileType(req), now, req.call) IN
     /\ files' = FailureCleanup(Unlink(files, unlinkErr, local_path),
                                unlinkErr, req.audio_local, req.video_local)
  /\ task_files' = FailurePop(task_files, 0)
  /\ req' = ReqIdle
  /\ UNCHANGED <<now, ticks, unlinkErr, nfaults, nsubmit, nfetch, posted,
                 cleaners, mappers, sweep,
                 probe>>

\* lines 132-164: the task code is generated and the engine is called; when
\* it accepts, the record is stored under file_lock and the code returned
PostAccepted ==
  /\ req.pc = "post"
  /\ posted' = posted \cup {req.call}
  /\ task_files' = Put(task_files, req.call,
                       TaskInfo(req.audio_local, req.video_local, now))
  /\ req' = ReqIdle
  /\ UNCHANGED <<now, ticks, files, unlinkErr, nfaults, nsubmit, nfetch,
                 cleaners, mappers, sweep,
                 probe>>

\* lines 144-149 and 166-178: the engine rejects the task or cannot be
\* reached; the staged files are deleted, the task code is popped and the
\* error is raised to the caller
PostRejected ==
  /\ req.pc = "post"
  /\ files' = FailureCleanup(files, unlinkErr, req.audio_local, req.video_local)
  /\ task_files' = FailurePop(task_files, req.call)
  /\ req' = ReqIdle
  /\ UNCHANGED <<now, ticks, unlinkErr, nfaults, nsubmit, nfetch, posted,
                 cleaners, mappers, sweep,
                 probe>>

----------------------------------------------------------------------------
(* get_result.                                                             *)

\* lines 221-232: the paths handed to cleanup_files
FilesToCleanup(output_path, tf, task_code) ==
  <<output_path>> \o
  (IF task_code # 0 /\ task_code \in DOMAIN tf
   THEN SelectSeq(<<tf[task_code].audio_local, tf[task_code].video_local>>,
                  Truthy)
   ELSE <<>>)

\* a variant of AttachResult that records the time but not the file
AttachTimeOnly(tf, task_code, output_path, t) ==
  IF task_code # 0 /\ task_code \in DOMAIN tf
  THEN [tf EXCEPT ![task_code].result_retrieved_time = t]
  ELSE tf

\* a variant of AttachResult that makes a record for a task code it does not
\* find
AttachOrCreate(tf, task_code, output_path, t) ==
  IF task_code = 0 THEN tf
  ELSE IF task_code \in DOMAIN tf
  THEN [tf EXCEPT ![task_code].result_file = output_path,
                  ![task_code].result_retrieved_time = t]
  ELSE Put(tf, task_code,
           [TaskInfo(NoPath, NoPath, t) EXCEPT !.result_file = output_path,
                                               !.result_retrieved_time = t])

\* lines 224-236
AttachResult(tf, task_code, output_path, t) ==
  IF task_code # 0 /\ task_code \in DOMAIN tf
  THEN [tf EXCEPT ![task_code].result_file = output_path,
                  ![task_code].result_retrieved_time = t]
  ELSE tf

\* a variant of Cleaner that does not sleep
CleanerAtOnce(paths, delay, t) ==
  [paths |-> paths, sleep |-> 0, checked |-> FALSE, since |-> t]

\* cleanup_files(paths, delay) with delay > 0: the thread it starts at time
\* t.  checked tells that os.path.exists has answered True for the first
\* path of the list and os.unlink is still to be called.  The field since
\* is not a value of the program: it keeps the time of the start for the
\* properties below.
Cleaner(paths, delay, t) ==
  [paths |-> paths, sleep |-> delay, checked |-> FALSE, since |-> t]

\* _schedule_task_cleanup: the thread it starts at time t
Mapper(task_code, t) ==
  [task_code |-> task_code, sleep |-> CLEANUP_DELAY + TASK_CLEANUP_MARGIN,
   since |-> t]

\* a variant of ResultExists that takes the result file for granted
ResultAssumed(fs, output_path) == TRUE

\* line 211
ResultExists(fs, output_path) == Exists(fs, output_path)

\* get_result(result_filename, task_code); task_code 0 is None, and a caller
\* knows the codes generated so far.  The result file is looked up in the
\* temp subdirectory; a missing file raises (line 212) and the handler
\* returns the error.  Otherwise the record, if any, is updated under
\* file_lock and the two threads are started.  The handler does not block
\* between these steps and runs while no submit_task call is being handled.
GetResult(result_filename, task_code) ==
  /\ req.pc = "idle"
  /\ nfetch < MaxFetches
  /\ task_code \in 0..nsubmit
  /\ nfetch' = nfetch + 1
  /\ LET output_path == PathJoin(TempDir, result_filename)
         files_to_cleanup == FilesToCleanup(output_path, task_files, task_code)
     IN
     IF ResultExists(files, output_path)
     THEN /\ task_files' = AttachResult(task_files, task_code, output_path, now)
          /\ cleaners' = Put(cleaners, nfetch + 1,
                             Cleaner(files_to_cleanup, CLEANUP_DELAY, now))
          /\ mappers' = IF task_code # 0
                        THEN Put(mappers, nfetch + 1, Mapper(task_code, now))
                        ELSE mappers
     ELSE UNCHANGED <<task_files, cleaners, mappers>>
  /\ UNCHANGED <<now, ticks, files, unlinkErr, nfaults, nsubmit, posted, req,
                 sweep,
                 probe>>

----------------------------------------------------------------------------
(* The deferred threads.                                                   *)

\* the thread after one path of its loop: the next path, or the thread ends
CleanerAdvance(cs, id) ==
  IF Tail(cs[id].paths) = <<>> THEN Drop(cs, id)
  ELSE [cs EXCEPT ![id].paths = Tail(cs[id].paths)]

\* a variant of CleanerHandled in which an unlink that raises ends the thread
CleanerEscalates(cs, id, result) ==
  IF result = "ok" THEN CleanerAdvance([cs EXCEPT ![id].checked = FALSE], id)
  ELSE Drop(cs, id)

\* lines 264-268: whatever os.unlink has done, returned or raised, the
\* except branch logs and the loop goes on to the next path
CleanerHandled(cs, id, result) ==
  CleanerAdvance([cs EXCEPT ![id].checked = FALSE], id)

\* do_cleanup, lines 260-268: after the sleep, the next path of the list is
\* unlinked if it exists (the check and the unlink in one step)
CleanerStep(id) ==
  /\ id \in DOMAIN cleaners
  /\ cleaners[id].sleep = 0
  /\ ~cleaners[id].checked
  /\ files' = Unlink(files, unlinkErr, Head(cleaners[id].paths))
  /\ cleaners' = CleanerAdvance(cleaners, id)
  /\ UNCHANGED <<now, ticks, unlinkErr, nfaults, task_files, nsubmit, nfetch,
                 posted, req, mappers, sweep,
                 probe>>

\* do_cleanup, line 265: os.path.exists on the next path of the list; a
\* path that does not exist is passed over
CleanerExists(id) ==
  /\ id \in DOMAIN cleaners
  /\ cleaners[id].sleep = 0
  /\ ~cleaners[id].checked
  /\ cleaners' = IF Exists(files, Head(cleaners[id].paths))
                 THEN [cleaners EXCEPT ![id].checked = TRUE]
                 ELSE CleanerAdvance(cleaners, id)
  /\ UNCHANGED <<now, ticks, files, unlinkErr, nfaults, task_files, nsubmit,
                 nfetch, posted, req, mappers, sweep, probe>>

\* do_cleanup, lines 266-268: os.unlink on the path that was found to exist
CleanerUnlink(id) ==
  /\ id \in DOMAIN cleaners
  /\ cleaners[id].checked
  /\ LET file_path == Head(cleaners[id].paths) IN
     /\ files' = Unlink(files, unlinkErr, file_path)
     /\ cleaners' = CleanerHandled(cleaners, id,
                                   UnlinkResult(files, unlinkErr, file_path))
  /\ UNCHANGED <<now, ticks, unlinkErr, nfaults, task_files, nsubmit, nfetch,
                 posted, req, mappers, sweep, probe>>

\* cleanup_task_mapping, lines 278-280
MapperFire(id) ==
  /\ id \in DOMAIN mappers
  /\ mappers[id].sleep = 0
  /\ task_files' = PopTask(task_files, mappers[id].task_code)
  /\ mappers' = Drop(mappers, id)
  /\ UNCHANGED <<now, ticks, files, unlinkErr, nfaults, nsubmit, nfetch,
                 posted, req, cleaners, sweep,
                 probe>>

----------------------------------------------------------------------------
(* periodic_cleanup, run by cleanup_worker.                                *)

\* lines 300-313: the pass time is read, the active files are collected
\* under file_lock and the directory is listed
SweepBegin ==
  /\ sweep.pc = "sleep"
  /\ sweep.sleep = 0
  /\ sweep' = [sweep EXCEPT !.pc = "next", !.current_time = now,
                            !.active_files = ActiveFileSet(task_files),
                            !.todo = Listing(files)]
  /\ UNCHANGED <<now, ticks, files, unlinkErr, nfaults, task_files, nsubmit,
                 nfetch, posted, req, cleaners, mappers,
                 probe>>

\* lines 313-315: the next entry of the listing; an entry that is no longer
\* a file is skipped
SweepNext(file_path) ==
  /\ sweep.pc = "next"
  /\ file_path \in sweep.todo
  /\ sweep' = IF Exists(files, file_path)
             THEN [sweep EXCEPT !.pc = "stat", !.cur = file_path,
                                !.todo = sweep.todo \ {file_path}]
             ELSE [sweep EXCEPT !.todo = sweep.todo \ {file_path}]
  /\ UNCHANGED <<now, ticks, files, unlinkErr, nfaults, task_files, nsubmit,
                 nfetch, posted, req, cleaners, mappers,
                 probe>>

\* the pass is over: cleanup_worker sleeps PERIODIC_CLEANUP_INTERVAL
SweepDone == SweepIdle(PERIODIC_CLEANUP_INTERVAL)

\* lines 326 and 331
Count(stats, cls) ==
  IF cls = "orphan" THEN [stats EXCEPT !.orphan_files = @ + 1]
  ELSE IF cls = "old" THEN [stats EXCEPT !.old_files = @ + 1]
  ELSE stats

\* line 318
FileAge(fs, file_path, current_time) == current_time - fs[file_path].mtime

\* lines 317-331: stat and the decision.  stat of a file unlinked since
\* is_file raises FileNotFoundError, which the except of line 355 catches:
\* the pass ends there.
SweepStat ==
  /\ sweep.pc = "stat"
  /\ IF Exists(files, sweep.cur)
     THEN LET cls == Classify(sweep.cur,
                              FileAge(files, sweep.cur, sweep.current_time),
                              sweep.active_files)
          IN sweep' = IF cls = "keep"
                      THEN [sweep EXCEPT !.pc = "next", !.cur = NoPath]
                      ELSE [sweep EXCEPT !.pc = "unlink",
                                         !.stats = Count(@, cls)]
     ELSE sweep' = SweepDone
  /\ UNCHANGED <<now, ticks, files, unlinkErr, nfaults, task_files, nsubmit,
                 nfetch, posted, req, cleaners, mappers,
                 probe>>

\* lines 333-337
SweepUnlink ==
  /\ sweep.pc = "unlink"
  /\ files' = Unlink(files, unlinkErr, sweep.cur)
  /\ sweep' = [sweep EXCEPT !.pc = "next", !.cur = NoPath]
  /\ UNCHANGED <<now, ticks, unlinkErr, nfaults, task_files, nsubmit, nfetch,
                 posted, req, cleaners, mappers,
                 probe>>

\* lines 340-353, under file_lock: the expired records are popped
SweepExpire ==
  /\ sweep.pc = "next"
  /\ sweep.todo = {}
  /\ task_files' = Expire(task_files, sweep.current_time)
  /\ sweep' = SweepDone
  /\ UNCHANGED <<now, ticks, files, unlinkErr, nfaults, nsubmit, nfetch,
                 posted, req, cleaners, mappers,
                 probe>>

----------------------------------------------------------------------------
(* The introspection handlers.  They run on the event loop, as the other   *)
(* handlers do, so not while a submit_task call is being handled; the      *)
(* threads run beside them.  locked tells whether the table is read under  *)
(* file_lock.                                                              *)

\* health_check, lines 375-384: len(face2face_service.task_files), read
\* with no lock held
HealthCheck ==
  /\ req.pc = "idle"
  /\ probe' = [op |-> "health",
               active_tasks |-> Cardinality(DOMAIN task_files),
               locked |-> FALSE]
  /\ UNCHANGED <<now, ticks, files, unlinkErr, nfaults, task_files, nsubmit,
                 nfetch, posted, req, cleaners, mappers, sweep>>

\* debug_tasks, lines 386-400: get_task_files_info copies the table under
\* file_lock (lines 358-361)
DebugTasks ==
  /\ req.pc = "idle"
  /\ probe' = [op |-> "debug",
               active_tasks |-> Cardinality(DOMAIN task_files),
               locked |-> TRUE]
  /\ UNCHANGED <<now, ticks, files, unlinkErr, nfaults, task_files, nsubmit,
                 nfetch, posted, req, cleaners, mappers, sweep>>

----------------------------------------------------------------------------

Next ==
  \/ \E d \in TickSteps : Tick(d)
  \/ \E code \in 1..MaxTasks : EngineWriteResult(code)
  \/ \E a \in AudioUrls, v \in VideoUrls : SubmitTask(a, v)
  \/ DownloadOk
  \/ DownloadFail
  \/ PostAccepted
  \/ PostRejected
  \/ \E name \in ResultNames, code \in 0..MaxTasks : GetResult(name, code)
  \/ \E id \in 1..MaxFetches : CleanerStep(id)
  \/ \E id \in 1..MaxFetches : MapperFire(id)
  \/ SweepBegin
  \/ \E p \in sweep.todo : SweepNext(p)
  \/ SweepStat
  \/ SweepUnlink
  \/ SweepExpire

Spec == Init /\ [][Next]_vars

\* The same steps for MaxLiveTasks calls of submit_task, with a clock that
\* advances past every delay at once and with the scheduling the threads
\* get: the clock advances while it can, and a thread whose sleep has ended
\* runs.
NextLive ==
  \/ Tick(MAX_FILE_AGE + 1)
  \/ \E code \in 1..MaxTasks : EngineWriteResult(code)
  \/ nsubmit < MaxLiveTasks /\ \E a \in AudioUrls, v \in VideoUrls : SubmitTask(a, v)
  \/ DownloadOk
  \/ DownloadFail
  \/ PostAccepted
  \/ PostRejected
  \/ \E name \in ResultNames, code \in 0..MaxTasks : GetResult(name, code)
  \/ \E id \in 1..MaxFetches : CleanerStep(id)
  \/ \E id \in 1..MaxFetches : MapperFire(id)
  \/ SweepBegin
  \/ \E p \in sweep.todo : SweepNext(p)
  \/ SweepStat
  \/ SweepUnlink
  \/ SweepExpire

SpecLive ==
  /\ Init
  /\ [][NextLive]_vars
  /\ WF_vars(Tick(MAX_FILE_AGE + 1))
  /\ \A id \in 1..MaxFetches :
       WF_vars(CleanerStep(id)) /\ WF_vars(MapperFire(id))

\* The requests, the deferred threads and the introspection handlers beside
\* them.
NextLock ==
  \/ \E d \in TickSteps : Tick(d)
  \/ \E code \in 1..MaxTasks : EngineWriteResult(code)
  \/ \E a \in AudioUrls, v \in VideoUrls : SubmitTask(a, v)
  \/ DownloadOk
  \/ PostAccepted
  \/ \E name \in ResultNames, code \in 0..MaxTasks : GetResult(name, code)
  \/ \E id \in 1..MaxFetches : CleanerStep(id)
  \/ \E id \in 1..MaxFetches : MapperFire(id)
  \/ HealthCheck
  \/ DebugTasks

SpecLock == Init /\ [][NextLock]_vars

\* One submit_task call, with unlinks that may fail and with the existence
\* check and the unlink of a deferred deletion as two steps.
NextFaults ==
  \/ \E d \in TickSteps : Tick(d)
  \/ \E code \in 1..MaxTasks : EngineWriteResult(code)
  \/ nsubmit < MaxLiveTasks
       /\ \E a \in AudioUrls, v \in VideoUrls : SubmitTask(a, v)
  \/ DownloadOk
  \/ DownloadFail
  \/ PostAccepted
  \/ PostRejected
  \/ \E name \in ResultNames, code \in 0..MaxTasks : GetResult(name, code)
  \/ \E id \in 1..MaxFetches : CleanerExists(id)
  \/ \E id \in 1..MaxFetches : CleanerUnlink(id)
  \/ \E id \in 1..MaxFetches : MapperFire(id)
  \/ SweepBegin
  \/ \E p \in sweep.todo : SweepNext(p)
  \/ SweepStat
  \/ SweepUnlink
  \/ SweepExpire
  \/ \E path \in DOMAIN files : SetUnlinkError(path)
  \/ \E path \in unlinkErr : ClearUnlinkError(path)

SpecFaults == Init /\ [][NextFaults]_vars

----------------------------------------------------------------------------
(* Properties.  A property of a step is stated over the step's two states: *)
(* the unprimed state is the one the step starts in.                       *)

\* the paths a record refers to
RecordPaths(task_info) ==
  {task_info.audio_local, task_info.video_local, task_info.result_file}
    \ {NoPath}

\* the paths some record refers to
Referenced(tf) == UNION {RecordPaths(tf[c]) : c \in DOMAIN tf}

\* the step is a step of the sweep thread
SweepStep == sweep' # sweep /\ sweep.pc # "sleep"

\* the step is the unlink of a sweep pass and removes the file
SweepDeleted ==
  /\ sweep.pc = "unlink"
  /\ SweepStep
  /\ Exists(files, sweep.cur)
  /\ ~Exists(files', sweep.cur)

\* the step ends a sweep pass
PassEnds == sweep.pc # "sleep" /\ sweep'.pc = "sleep"

\* the age, at the time of the pass, of the file the pass is looking at
CurAge == FileAge(files, sweep.cur, sweep.current_time)

(* C1.  Whatever the interleaving of the sweep with the requests and the   *)
(* deferred threads, a sweep pass deletes a file that a record refers to   *)
(* only if the age of the file (pass time minus modification time) exceeds *)
(* MAX_FILE_AGE.                                                           *)
C1_Claim ==
  [][SweepDeleted /\ sweep.cur \in Referenced(task_files)
       => CurAge > MAX_FILE_AGE]_vars

(* C2.  As claimed: a file of the pass's active set that an existing       *)
(* record refers to is deleted by the sweep only if that record is older   *)
(* than MAX_FILE_AGE.                                                      *)
C2_Claim ==
  [][SweepDeleted /\ sweep.cur \in sweep.active_files
       => \A c \in DOMAIN task_files :
            sweep.cur \in RecordPaths(task_files[c])
              => sweep.current_time - task_files[c].created_time
                   > MAX_FILE_AGE]_vars

(* C2, amended.  A file of the pass's active set is marked for deletion    *)
(* exactly when the file's own age, as the pass reads it, exceeds          *)
(* MAX_FILE_AGE, whatever the age of the records that refer to it; and a   *)
(* pass unlinks no file it has not marked.                                 *)
C2_Theorem ==
  [][/\ (sweep.pc = "stat" /\ SweepStep /\ Exists(files, sweep.cur)
           /\ sweep.cur \in sweep.active_files)
          => IF CurAge > MAX_FILE_AGE
             THEN sweep'.pc = "unlink" /\ sweep'.cur = sweep.cur
             ELSE sweep'.pc = "next" /\ files' = files
     /\ (SweepStep /\ sweep.pc # "unlink") => files' = files]_vars

\* a pass has unlinked a file of its active set that it found too old
C2_Witness ==
  /\ sweep.pc = "next"
  /\ sweep.stats.old_files > 0
  /\ \E p \in sweep.active_files : ~Exists(files, p)

(* C3.  No sweep pass deletes a file that a submit_task call has staged    *)
(* while that call is still before the creation of its record (the second  *)
(* download or the post to the engine is pending).                         *)
C3_Claim ==
  [][SweepDeleted
       => ~(/\ req.pc \in {"video", "post"}
            /\ sweep.cur \in {req.audio_local, req.video_local}
            /\ files[sweep.cur].owner = req.call)]_vars

(* C4.  The set of active files is exactly the union, over the records of  *)
(* the table, of the non-empty paths of the record (audio, video, result), *)
(* and this is the set a sweep pass takes as its snapshot.                 *)
C4_Theorem ==
  /\ [](ActiveFileSet(task_files) = Referenced(task_files))
  /\ [][sweep.pc = "sleep" /\ sweep'.pc # "sleep"
          => sweep'.active_files = Referenced(task_files)]_vars

\* a pass holds a snapshot with the result file and the inputs of a record
C4_Witness ==
  /\ sweep.pc # "sleep"
  /\ \E c \in DOMAIN task_files :
       /\ task_files[c].result_file # NoPath
       /\ RecordPaths(task_files[c]) \subseteq sweep.active_files
       /\ Cardinality(RecordPaths(task_files[c])) = 3

(* C5.  No path is referred to by two records at the same time.            *)
C5_Claim ==
  \A c1, c2 \in DOMAIN task_files :
    c1 # c2 => RecordPaths(task_files[c1]) \cap RecordPaths(task_files[c2]) = {}

(* C6.  Once a record is removed from the table (by the deferred removal   *)
(* or by expiry), the set of active files no longer contains the input     *)
(* files of that record.                                                   *)
C6_Claim ==
  [][\A c \in DOMAIN task_files :
       c \notin DOMAIN task_files'
         => {task_files[c].audio_local, task_files[c].video_local}
              \cap ActiveFileSet(task_files') = {}]_vars

\* the step ends a submit_task call with an error
SubmitFails == req.pc # "idle" /\ req'.pc = "idle" /\ req.call \notin posted'

FetchStep == nfetch' = nfetch + 1 /\ (nfetch + 1) \in DOMAIN cleaners'

\* the task code of that call
FetchCode ==
  IF (nfetch + 1) \in DOMAIN mappers' THEN mappers'[nfetch + 1].task_code
  ELSE 0

\* what get_result does for a task of the table: the record gets the
\* result path, which is an existing file of the temp subdirectory, and
\* the time; the two input paths of the record are handed on for deletion
\* with the result; no other record changes
C8_Attach ==
  FetchStep /\ FetchCode \in DOMAIN task_files
    => LET paths == cleaners'[nfetch + 1].paths IN
       /\ DOMAIN task_files' = DOMAIN task_files
       /\ task_files'[FetchCode] =
            [task_files[FetchCode] EXCEPT !.result_file = Head(paths),
                                          !.result_retrieved_time = now]
       /\ Head(paths).dir = TempDir
       /\ Exists(files, Head(paths))
       /\ Tail(paths) = <<task_files[FetchCode].audio_local,
                          task_files[FetchCode].video_local>>
       /\ \A d \in DOMAIN task_files \ {FetchCode} :
            task_files'[d] = task_files[d]

\* the result path of a record stays active while the record stays
C8_Kept ==
  \A c \in DOMAIN task_files \cap DOMAIN task_files' :
    task_files[c].result_file # NoPath
      => task_files[c].result_file \in ActiveFileSet(task_files')

\* the same, unless the step is a get_result call for that task with
\* another result file
C8_KeptOrReplaced ==
  \A c \in DOMAIN task_files \cap DOMAIN task_files' :
    task_files[c].result_file # NoPath
      => \/ task_files[c].result_file \in ActiveFileSet(task_files')
         \/ /\ FetchStep
            /\ FetchCode = c
            /\ task_files'[c].result_file # task_files[c].result_file

(* C8.  As claimed: get_result for a task of the table, with an existing   *)
(* result file, sets the result path and the retrieval time of the record, *)
(* hands on the two input paths, changes no other record, and from then on *)
(* the result path is active until the record is removed.                  *)
C8_Claim == [][C8_Attach /\ C8_Kept]_vars

(* C8, amended.  The same, but the result path is active until the record  *)
(* is removed or a later get_result call for the same task attaches        *)
(* another result path.                                                    *)
C8_Theorem == [][C8_Attach /\ C8_KeptOrReplaced]_vars

\* the last get_result call has attached a result to a record and started
\* the thread that deletes the result and the two inputs
C8_Witness ==
  \E c \in DOMAIN task_files :
    /\ nfetch \in DOMAIN cleaners
    /\ nfetch \in DOMAIN mappers
    /\ mappers[nfetch].task_code = c
    /\ cleaners[nfetch].paths =
         <<task_files[c].result_file, task_files[c].audio_local,
           task_files[c].video_local>>
    /\ task_files[c].result_retrieved_time = now

C10_Claim ==
  [][/\ PassEnds
          => \A c \in DOMAIN task_files' :
               sweep.current_time - task_files'[c].created_time
                 <= MAX_FILE_AGE
     /\ (SweepStep /\ task_files' # task_files) => files' = files]_vars

\* the step removes the file
Removed(p) == Exists(files, p) /\ ~Exists(files', p)

\* the step is a step of the thread that get_result call n has started to
\* delete files: it passes on to its next path or ends
CleanerActs(n) ==
  /\ n \in DOMAIN cleaners
  /\ \/ n \notin DOMAIN cleaners'
     \/ cleaners'[n].paths # cleaners[n].paths

\* the step is the step of the thread that get_result call n has started to
\* remove the record
MapperActs(n) == n \in DOMAIN mappers /\ n \notin DOMAIN mappers'

\* every thread started by a get_result call comes to its end, all files of
\* its list deleted and the record removed, provided the clock is still to
\* advance when the call is made
C11_Eventually ==
  /\ \A n \in 1..MaxFetches :
       (n \in DOMAIN cleaners /\ ticks < MaxTicks) ~> (n \notin DOMAIN cleaners)
  /\ \A n \in 1..MaxFetches :
       (n \in DOMAIN mappers /\ ticks < MaxTicks) ~> (n \notin DOMAIN mappers)
  /\ [][\A n \in 1..MaxFetches :
          /\ CleanerActs(n) => ~Exists(files', Head(cleaners[n].paths))
          /\ MapperActs(n)
               => mappers[n].task_code \notin DOMAIN task_files']_vars

FetchCall == nfetch' = nfetch + 1

(* C12.  A get_result call for a result file that does not exist starts no *)
(* thread (no file is to be deleted, no record to be removed) and leaves   *)
(* the table and the files as they are: a call that starts a thread or     *)
(* changes anything has found its file in the temp subdirectory.           *)
C12_Theorem ==
  [][FetchCall
       => \/ /\ (nfetch + 1) \in DOMAIN cleaners'
             /\ Head(cleaners'[nfetch + 1].paths).dir = TempDir
             /\ Exists(files, Head(cleaners'[nfetch + 1].paths))
          \/ /\ cleaners' = cleaners
             /\ mappers' = mappers
             /\ task_files' = task_files
             /\ files' = files]_vars

\* the only get_result call so far has failed: it has started no thread,
\* and the record of the table has no result
C12_Witness ==
  /\ nfetch = 1
  /\ ticks = 0
  /\ cleaners = <<>>
  /\ mappers = <<>>
  /\ \E c \in DOMAIN task_files :
       /\ task_files[c].result_file = NoPath
       /\ task_files[c].result_retrieved_time = NoTime

(* C13.  A get_result call that finds its file but whose task code is not  *)
(* in the table starts a thread that deletes the result file and nothing   *)
(* else, and leaves the table as it is; and when the thread that is to     *)
(* remove the record of a task code finds none, the table stays as it is.  *)
C13_Theorem ==
  [][/\ (FetchStep /\ FetchCode # 0 /\ FetchCode \notin DOMAIN task_files)
          => /\ Len(cleaners'[nfetch + 1].paths) = 1
             /\ Head(cleaners'[nfetch + 1].paths).dir = TempDir
             /\ task_files' = task_files
     /\ \A n \in 1..MaxFetches :
          (MapperActs(n) /\ mappers[n].task_code \notin DOMAIN task_files)
            => task_files' = task_files]_vars

\* a get_result call with a task code that is not in the table has started
\* its threads: the list has the result file alone, and the record of
\* another task is in the table
C13_Witness ==
  /\ ticks = 0
  /\ task_files # <<>>
  /\ \E n \in DOMAIN mappers :
       /\ n \in DOMAIN cleaners
       /\ Len(cleaners[n].paths) = 1
       /\ mappers[n].task_code \notin DOMAIN task_files

(* C14.  The thread that removes the record sleeps longer than the thread  *)
(* of the same get_result call that deletes the files, and whenever such a *)
(* thread deletes a file, every record of the table that refers to the     *)
(* file carries a result path and a retrieval time.                        *)
C14_Claim ==
  /\ [](\A n \in DOMAIN cleaners \cap DOMAIN mappers :
          cleaners[n].sleep > 0 => mappers[n].sleep > cleaners[n].sleep)
  /\ [][\A n \in 1..MaxFetches :
          (CleanerActs(n) /\ Removed(Head(cleaners[n].paths)))
            => \A c \in DOMAIN task_files' :
                 Head(cleaners[n].paths) \in RecordPaths(task_files'[c])
                   => /\ task_files'[c].result_file # NoPath
                      /\ task_files'[c].result_retrieved_time # NoTime]_vars

\* the step ends a sweep pass by an error
PassFails == PassEnds /\ ~(sweep.pc = "next" /\ sweep.todo = {})

(* C15.  The cleanup worker never ends: after every pass it sleeps and     *)
(* starts another pass; after a pass without error it sleeps               *)
(* PERIODIC_CLEANUP_INTERVAL, and after a pass that an error has ended it  *)
(* sleeps the shorter ERROR_BACKOFF.                                       *)
C15_Claim ==
  [][PassEnds
       => /\ sweep'.pc = "sleep"
          /\ sweep'.sleep = IF PassFails THEN ERROR_BACKOFF
                            ELSE PERIODIC_CLEANUP_INTERVAL]_vars

(* C16.  Every answer of an introspection handler that reports the number  *)
(* of records or the contents of the table was computed from a read of     *)
(* the table made under file_lock.                                         *)
C16_Claim == probe.op # "none" => probe.locked

\* the step calls os.unlink on the existing file p and the call raises: in a
\* deferred thread, in the cleanup of a failed submit_task call, or in a
\* sweep pass
DeleteFails(p) ==
  /\ UnlinkResult(files, unlinkErr, p) = "err"
  /\ \/ \E n \in DOMAIN cleaners :
          /\ cleaners[n].checked
          /\ CleanerActs(n)
          /\ Head(cleaners[n].paths) = p
     \/ SubmitFails /\ p \in {req.audio_local, req.video_local}
     \/ sweep.pc = "unlink" /\ SweepStep /\ sweep.cur = p

(* C17.  A file whose deletion fails is left for the sweep to retry: it is *)
(* one of the files that the listing of a sweep pass returns, so that a    *)
(* later pass comes to it again.                                           *)
C17_Claim ==
  [][\A p \in DOMAIN files : DeleteFails(p) => p \in Listing(files')]_vars

\* outcome of the unlink that a step of deferred thread n makes, or would
\* make, on the path it has come to
CleanerResult(n) ==
  UnlinkResult(files, unlinkErr, Head(cleaners[n].paths))

(* C18.  A deferred deletion goes through its whole list whatever happens  *)
(* to the files: the thread ends only when it has come to the last path,   *)
(* and otherwise passes on to the next one, also when the path does not    *)
(* exist or has been deleted by someone else between the existence check   *)
(* and the unlink; the file is absent afterwards unless the unlink has     *)
(* failed for another reason, and a step on an absent path changes no      *)
(* file.  The immediate deletion of a failed submit_task call leaves       *)
(* absent every file of its list whose unlink does not fail.               *)
C18_Theorem ==
  [][/\ \A n \in 1..MaxFetches :
          CleanerActs(n)
            => /\ IF Len(cleaners[n].paths) = 1
                  THEN n \notin DOMAIN cleaners'
                  ELSE /\ n \in DOMAIN cleaners'
                       /\ cleaners'[n].paths = Tail(cleaners[n].paths)
                       /\ ~cleaners'[n].checked
               /\ CleanerResult(n) # "err"
                    => ~Exists(files', Head(cleaners[n].paths))
               /\ CleanerResult(n) = "enoent" => files' = files
     /\ SubmitFails
          => \A p \in {req.audio_local, req.video_local} \ {NoPath} :
               p \notin unlinkErr => ~Exists(files', p)]_vars

\* a deferred thread has found its path to exist, the path has been deleted
\* since, and the thread has more paths to go through
C18_Witness ==
  \E n \in DOMAIN cleaners :
    /\ cleaners[n].checked
    /\ ~Exists(files, Head(cleaners[n].paths))
    /\ Len(cleaners[n].paths) > 1

(* C19.  A cleanup deletes no file that belongs to another task: a file    *)
(* that a deferred thread of get_result deletes is referred to only by     *)
(* records whose result has been fetched, and a file that the cleanup of a *)
(* failed submit_task call deletes is referred to by no record.            *)
C19_Claim ==
  [][\A p \in DOMAIN files :
       Removed(p)
         => /\ (\E n \in 1..MaxFetches : CleanerActs(n))
                 => \A c \in DOMAIN task_files :
                      p \in RecordPaths(task_files[c])
                        => task_files[c].result_file # NoPath
            /\ SubmitFails => p \notin Referenced(task_files)]_vars

(* C20.  A sweep pass that has taken its snapshot ends in one way only: it *)
(* has gone through every file of its listing and then removes the expired *)
(* records, also when a file of the listing is deleted by a deferred       *)
(* thread or by the cleanup of a failed submit_task call before the pass   *)
(* comes to it.                                                            *)
C20_Claim ==
  [][PassEnds
       => /\ sweep.pc = "next"
          /\ sweep.todo = {}
          /\ task_files' = Expire(task_files, sweep.current_time)]_vars

====
